---- MODULE Spec2Model ----
(***************************************************************************)
(* The PDF chatbot notebook (chat_ui_base_model.py): the RAG core of CELL 6 *)
(* (retrieve_context, answer_with_qa, answer_with_summary, chatbot_answer)  *)
(* and the widget handlers of CELL 7 (process_query, on_clear,              *)
(* update_display).  A Python str is a sequence of one-character strings;   *)
(* the retriever, the QA pipeline and the summarizer are external: their    *)
(* outcomes (a result or an exception) are chosen nondeterministically.     *)
(***************************************************************************)
EXTENDS Integers, Sequences, FiniteSets, TLC

VARIABLES vectorstore, query_box, chat_history, output_box,
          pc, query, qa_ans, result, exc, calls

vars == <<vectorstore, query_box, chat_history, output_box,
          pc, query, qa_ans, result, exc, calls>>

---------------------------------------------------------------------------
(* Python str primitives, on  !\"#$%&'()*+,-./0123456789:;<=>?@ABCDEFGHIJKLMNOPQRSTUVWXYZ[\\]^_`abcdefghijklmnopqrstuvwxyz{|}~ text.                                   *)

\* The printable  !\"#$%&'()*+,-./0123456789:;<=>?@ABCDEFGHIJKLMNOPQRSTUVWXYZ[\\]^_`abcdefghijklmnopqrstuvwxyz{|}~ characters in code-point order, from 32 (space).
Ascii == <<" ","!","\"","#","$","%","&","'","(",")","*","+",",","-",".","/","0","1","2","3","4","5","6","7","8","9",":",";","<","=",">","?","@","A","B","C","D","E","F","G","H","I","J","K","L","M","N","O","P","Q","R","S","T","U","V","W","X","Y","Z","[","\\","]","^","_","GRAVE","a","b","c","d","e","f","g","h","i","j","k","l","m","n","o","p","q","r","s","t","u","v","w","x","y","z","{","|","}","~">>

ord(c) ==
    IF c = "\n" THEN 10
    ELSE IF c = "\t" THEN 9
    ELSE 31 + (CHOOSE i \in 1..Len(Ascii) : Ascii[i] = c)

chr(n) == Ascii[n - 31]

Whitespace == {" ", "\n", "\t"}

lower_char(c) == IF ord(c) \in 65..90 THEN chr(ord(c) + 32) ELSE c

\* str.lower()
lower(s) == [i \in 1..Len(s) |-> lower_char(s[i])]

RECURSIVE lstrip(_)
lstrip(s) ==
    IF s # <<>> /\ s[1] \in Whitespace THEN lstrip(Tail(s)) ELSE s

RECURSIVE rstrip(_)
rstrip(s) ==
    IF s # <<>> /\ s[Len(s)] \in Whitespace
    THEN rstrip(SubSeq(s, 1, Len(s) - 1))
    ELSE s

\* str.strip()
strip(s) == rstrip(lstrip(s))

\* str.startswith(p)
startswith(s, p) == Len(s) >= Len(p) /\ SubSeq(s, 1, Len(p)) = p

\* p in s
contains(s, p) ==
    \E i \in 0..(Len(s) - Len(p)) : SubSeq(s, i + 1, i + Len(p)) = p

\* a < b on str: lexicographic by code point
RECURSIVE str_lt(_, _)
str_lt(a, b) ==
    IF b = <<>> THEN FALSE
    ELSE IF a = <<>> THEN TRUE
    ELSE IF a[1] = b[1] THEN str_lt(Tail(a), Tail(b))
    ELSE ord(a[1]) < ord(b[1])

\* sorted(S) of a set of str
RECURSIVE sorted(_)
sorted(S) ==
    IF S = {} THEN <<>>
    ELSE LET m == CHOOSE x \in S : \A y \in S \ {x} : str_lt(x, y)
         IN  <<m>> \o sorted(S \ {m})

\* sep.join(xs)
RECURSIVE join(_, _)
join(sep, xs) ==
    IF xs = <<>> THEN <<>>
    ELSE IF Len(xs) = 1 THEN xs[1]
    ELSE xs[1] \o sep \o join(sep, Tail(xs))

---------------------------------------------------------------------------
(* Python values: a str, or a float given in tenths (5 is 0.5).            *)

Str(s) == [type |-> "str", v |-> s]

Float(x) == [type |-> "float", v |-> x]

None == [type |-> "NoneType", v |-> 0]

DigitChar(d) == chr(48 + d)

\* repr of a float in tenths, 0.0 .. 9.9
repr_float(x) == <<DigitChar(x \div 10), ".", DigitChar(x % 10)>>

\* f"{value}"
format(val) == IF val.type = "str" THEN val.v ELSE repr_float(val.v)

---------------------------------------------------------------------------
(* CELL 4-6: retrieval and the two answerers.                              *)

\* search_kwargs={"k": 4} of the retriever
search_k == 4

\* the k of retrieve_context's signature, which answer_with_qa leaves at
\* its default
default_k == 4

\* the k answer_with_summary passes
summary_k == 6

\* a metadata dict is a function on a subset of {"source"}; <<>> is {} or None
NoMetadata == <<>>

Document(text, md) == [page_content |-> text, metadata |-> md]

Min(a, b) == IF a < b THEN a ELSE b

\* retriever.invoke(query): the search_k entries of the index most similar
\* to the query.  The index is read-only; vs lists it in similarity order.
retriever_invoke(vs, q) == SubSeq(vs, 1, Min(search_k, Len(vs)))

\* r.metadata.get("source", "") if getattr(r, "metadata", None) else ""
source_of(r) ==
    IF "source" \in DOMAIN r.metadata THEN r.metadata.source ELSE <<>>

\* retrieve_context(query, k): k is never read
retrieve_context(vs, q, k) ==
    LET results == retriever_invoke(vs, q)
    IN  [i \in 1..Len(results) |->
            [text |-> results[i].page_content, source |-> source_of(results[i])]]

\* " ".join([c["text"] for c in ctx_chunks])
context_of(ctx_chunks) ==
    join(<<" ">>, [i \in 1..Len(ctx_chunks) |-> ctx_chunks[i].text])

\* sources_of without sorted({...}): the sources in rank order, repeats kept
sources_of_in_rank_order(ctx_chunks) ==
    join(<<","," ">>,
         SelectSeq([i \in 1..Len(ctx_chunks) |-> ctx_chunks[i].source],
                   LAMBDA s : s # <<>>))

\* ", ".join(sorted({c["source"] for c in ctx_chunks if c["source"]}))
sources_of(ctx_chunks) ==
    join(<<","," ">>,
         sorted({ctx_chunks[i].source : i \in {j \in 1..Len(ctx_chunks) :
                                               ctx_chunks[j].source # <<>>}}))

\* f"{answer}\n\n(Sources: {sources})" when sources is not empty
with_sources(val, sources) ==
    IF sources # <<>>
    THEN Str(format(val) \o <<"\n","\n","(","S","o","u","r","c","e","s",":"," ">> \o sources \o <<")">>)
    ELSE val

NoPassages == <<"N","o"," ","r","e","l","e","v","a","n","t"," ","p","a","s","s","a","g","e","s"," ","f","o","u","n","d"," ","i","n"," ","t","h","e"," ","P","D","F","s",".">>

QAErrorPrefix == <<"Q","A"," ","m","o","d","e","l"," ","e","r","r","o","r",":"," ">>

SummarizerErrorPrefix == <<"S","u","m","m","a","r","i","z","e","r"," ","e","r","r","o","r",":"," ">>

\* str(res) of the QA pipeline's dict when its answer is ''
str_res(res) ==
    <<"{","'","s","c","o","r","e","'",":"," ">> \o repr_float(res.score) \o <<","," ","'","s","t","a","r","t","'",":"," ">>
    \o <<DigitChar(res.start)>> \o <<","," ","'","e","n","d","'",":"," ">> \o <<DigitChar(res.end)>>
    \o <<","," ","'","a","n","s","w","e","r","'",":"," ","'","'","}">>

\* res.get("answer") or res.get("score") or str(res)
qa_answer_of(res) ==
    IF res.answer # <<>> THEN Str(res.answer)
    ELSE IF res.score # 0 THEN Float(res.score)
    ELSE Str(str_res(res))

(* What a call does: it returns value, or raises exc; calls lists what it   *)
(* invoked and what came back, in order.                                    *)
Event(fn, ev, k, chunks, context, value) ==
    [fn |-> fn, ev |-> ev, k |-> k, chunks |-> chunks, context |-> context,
     value |-> value]

Enter(fn) == Event(fn, "call", 0, <<>>, <<>>, None)

Exit(fn, val) == Event(fn, "return", 0, <<>>, <<>>, val)

Return(fn, val, cs) ==
    [raised |-> FALSE, exc |-> "", value |-> val, calls |-> cs \o <<Exit(fn, val)>>]

Raise(e, cs) == [raised |-> TRUE, exc |-> e, value |-> None, calls |-> cs]

RetrieveCall(k, ctx_chunks) ==
    Event("retrieve_context", "return", k, ctx_chunks, <<>>, None)

RetrieveRaise(k) == Event("retrieve_context", "raise", k, <<>>, <<>>, None)

ModelCall(fn, context, outcome) ==
    Event(fn, IF outcome.raises THEN "raise" ELSE "return", 0, <<>>, context,
          outcome)

\* if not ctx_chunks: return "No relevant passages found in the PDFs."
on_no_chunks(fn, cs) == Return(fn, Str(NoPassages), cs)

\* on_qa_error without the except clause: the exception leaves the function
on_qa_error_reraise(detail, cs) == Raise("Exception", cs)

\* except Exception as e: return f"QA model error: {e}"
on_qa_error(detail, cs) ==
    Return("answer_with_qa", Str(QAErrorPrefix \o detail), cs)

\* except Exception as e: return f"Summarizer error: {e}"
on_summarizer_error(detail, cs) ==
    Return("answer_with_summary", Str(SummarizerErrorPrefix \o detail), cs)

\* answer_with_qa(query); retr is whether the retriever answers ("ok") or
\* raises, qa the QA pipeline's outcome
answer_with_qa(vs, q, retr, qa) ==
    LET enter == <<Enter("answer_with_qa")>>
    IN
    IF retr # "ok"
    THEN Raise("RetrieverError", enter \o <<RetrieveRaise(default_k)>>)
    ELSE
    LET ctx_chunks == retrieve_context(vs, q, default_k)
        cs == enter \o <<RetrieveCall(default_k, ctx_chunks)>>
    IN
    IF ctx_chunks = <<>> THEN on_no_chunks("answer_with_qa", cs)
    ELSE
    LET context == context_of(ctx_chunks)
        cs2 == cs \o <<ModelCall("qa_pipeline", context, qa)>>
    IN
    IF qa.raises THEN on_qa_error(qa.detail, cs2)
    ELSE Return("answer_with_qa",
                with_sources(qa_answer_of(qa.res), sources_of(ctx_chunks)), cs2)

\* answer_with_summary(query); sm is the summarizer's outcome
answer_with_summary(vs, q, retr, sm) ==
    LET enter == <<Enter("answer_with_summary")>>
    IN
    IF retr # "ok"
    THEN Raise("RetrieverError", enter \o <<RetrieveRaise(summary_k)>>)
    ELSE
    LET ctx_chunks == retrieve_context(vs, q, summary_k)
        cs == enter \o <<RetrieveCall(summary_k, ctx_chunks)>>
    IN
    IF ctx_chunks = <<>> THEN on_no_chunks("answer_with_summary", cs)
    ELSE
    LET context == context_of(ctx_chunks)
        cs2 == cs \o <<ModelCall("summarizer", context, sm)>>
    IN
    IF sm.raises THEN on_summarizer_error(sm.detail, cs2)
    ELSE Return("answer_with_summary",
                with_sources(Str(sm.summary_text), sources_of(ctx_chunks)), cs2)

\* the routing keywords of chatbot_answer
Keywords ==
    { <<"s","u","m","m","a","r","i","z","e">>, <<"s","u","m","m","a","r","y">>, <<"s","u","m","m","a","r","i","s","e">>, <<"g","i","v","e"," ","a"," ","s","u","m","m","a","r","y">>,
      <<"e","x","p","l","a","i","n">>, <<"o","v","e","r","v","i","e","w">> }

\* is_summary_query without lower(): the match is case-sensitive
is_summary_query_case_sensitive(q) ==
    \E tok \in Keywords : contains(strip(q), tok)

\* any(tok in query.strip().lower() for tok in [...])
is_summary_query(q) ==
    LET qlow == lower(strip(q)) IN \E tok \in Keywords : contains(qlow, tok)

UnhelpfulPrefixes == { <<"i"," ","d","o"," ","n","o","t"," ","k","n","o","w">>, <<"n","o"," ","r","e","l","e","v","a","n","t">>, <<"u","n","a","n","s","w","e","r","a","b","l","e">> }

\* len(qa_ans) < 20
min_len == 20

\* qa_unhelpful without "no relevant" among the prefixes
qa_unhelpful_without_no_relevant(s) ==
    \/ \E p \in UnhelpfulPrefixes \ { <<"n","o"," ","r","e","l","e","v","a","n","t">> } :
           startswith(lower(strip(s)), p)
    \/ Len(s) < min_len

\* qa_ans.strip().lower().startswith((...)) or len(qa_ans) < 20, on a str
qa_unhelpful(s) ==
    \/ \E p \in UnhelpfulPrefixes : startswith(lower(strip(s)), p)
    \/ Len(s) < min_len

---------------------------------------------------------------------------
(* The environment: the indexed chunks, what the user types, and what the   *)
(* external models answer.                                                  *)

Src(name) == [source |-> name]

\* seven chunks of three PDFs, one page without metadata
CorpusLarge ==
    << Document(<<"c","1">>, Src(<<"b",".","p","d","f">>)), Document(<<"c","2">>, Src(<<"a",".","p","d","f">>)),
       Document(<<"c","3">>, Src(<<"a",".","p","d","f">>)), Document(<<"c","4">>, NoMetadata),
       Document(<<"c","5">>, Src(<<"c",".","p","d","f">>)), Document(<<"c","6">>, Src(<<"d",".","p","d","f">>)),
       Document(<<"c","7">>, Src(<<"a",".","p","d","f">>)) >>

\* fewer chunks than search_k; a file name in capitals
CorpusSmall ==
    << Document(<<"s","1">>, Src(<<"a",".","p","d","f">>)), Document(<<"s","2">>, Src(<<>>)),
       Document(<<"s","3">>, Src(<<"B",".","p","d","f">>)) >>

\* chunks that carry no source
CorpusNoSource ==
    << Document(<<"n","1">>, NoMetadata), Document(<<"n","2">>, Src(<<>>)) >>

Corpora == { <<>>, CorpusNoSource, CorpusSmall, CorpusLarge }

Inputs == { <<>>, <<" "," ">>, <<" ","S","u","m","m","a","r","i","z","e"," ","X">>, <<"W","h","a","t"," ","i","s"," ","Y","?">> }

QARes(answer, score) ==
    [answer |-> answer, score |-> score, start |-> 0, end |-> 0]

QAOutcome(res) == [raises |-> FALSE, detail |-> <<>>, res |-> res]

QAFailure(detail) ==
    [raises |-> TRUE, detail |-> detail, res |-> QARes(<<>>, 0)]

QAOutcomes ==
    { QAOutcome(QARes(<<>>, 5)), QAOutcome(QARes(<<>>, 0)),
      QAOutcome(QARes(<<"4","2">>, 9)),
      QAOutcome(QARes(<<"I"," ","D","o"," ","N","o","t"," ","K","n","o","w"," ","t","h","e"," ","a","n","s","w","e","r",".">>, 1)),
      QAOutcome(QARes(<<" ","u","n","a","n","s","w","e","r","a","b","l","e"," ","f","r","o","m"," ","t","e","x","t">>, 1)),
      QAOutcome(QARes(<<"Y"," ","i","s"," ","o","n","e"," ","h","u","n","d","r","e","d"," ","d","e","g","r","e","e","s">>, 9)),
      QAFailure(<<>>), QAFailure(<<"t","i","m","e","o","u","t">>) }

SummaryOutcome(text) == [raises |-> FALSE, detail |-> <<>>, summary_text |-> text]

SummaryFailure(detail) ==
    [raises |-> TRUE, detail |-> detail, summary_text |-> <<>>]

SummarizerOutcomes ==
    { SummaryOutcome(<<"Y"," ","i","s"," ","d","i","s","c","u","s","s","e","d",".">>), SummaryFailure(<<"o","u","t"," ","o","f"," ","m","e","m","o","r","y">>) }

RetrieverOutcomes == { "ok", "raise" }

\* the output lines and the turns of a run
MaxLines == 3

---------------------------------------------------------------------------
(* CELL 7: the widget handlers.                                            *)

\* chat_history[-20:]
display_limit == 20

ProcessingLine(q) == [kind |-> "processing", i |-> 0, q |-> q, a |-> None]

\* update_display(): the output box after clear_output() and the prints
update_display(h) ==
    LET first == IF Len(h) > display_limit THEN Len(h) - display_limit ELSE 0
    IN  [i \in 1..(Len(h) - first) |->
            [kind |-> "turn", i |-> i, q |-> h[first + i][1], a |-> h[first + i][2]]]

\* history_append as insert(0, ...): the new turn goes first
history_prepend(h, q, a) == <<<<q, a>>>> \o h

\* history_append run twice for one answer
history_append_twice(h, q, a) == Append(Append(h, <<q, a>>), <<q, a>>)

\* chat_history.append((q, a))
history_append(h, q, a) == Append(h, <<q, a>>)

Init ==
    /\ vectorstore \in Corpora
    /\ query_box = <<>>
    /\ chat_history = <<>>
    /\ output_box = <<>>
    /\ pc = "idle"
    /\ query = <<>>
    /\ qa_ans = None
    /\ result = None
    /\ exc = ""
    /\ calls = <<>>

\* the user edits the query box
type_query ==
    /\ pc = "idle"
    /\ \E v \in Inputs : query_box' = v
    /\ UNCHANGED <<vectorstore, chat_history, output_box, pc, query, qa_ans,
                   result, exc, calls>>

\* process_query, lines 195-197: a blank query returns at once
process_query_blank ==
    /\ pc = "idle"
    /\ strip(query_box) = <<>>
    /\ UNCHANGED vars

\* process_query, lines 195-202: up to the call of chatbot_answer
process_query_begin ==
    /\ pc = "idle"
    /\ strip(query_box) # <<>>
    /\ Len(output_box) < MaxLines
    /\ query' = strip(query_box)
    /\ output_box' = Append(output_box, ProcessingLine(strip(query_box)))
    /\ pc' = "chatbot_answer"
    /\ UNCHANGED <<vectorstore, query_box, chat_history, qa_ans, result, exc, calls>>

\* a call made by chatbot_answer ends: it raised, or it returned value
Ended(r, to) ==
    /\ calls' = calls \o r.calls
    /\ IF r.raised
       THEN /\ pc' = "raised"
            /\ exc' = r.exc
            /\ UNCHANGED <<qa_ans, result>>
       ELSE /\ pc' = to
            /\ IF to = "qa_done"
               THEN qa_ans' = r.value /\ UNCHANGED result
               ELSE result' = r.value /\ UNCHANGED qa_ans
            /\ UNCHANGED exc

\* chatbot_answer, lines 162-164: a summary query
chatbot_answer_summary ==
    /\ pc = "chatbot_answer"
    /\ is_summary_query(query)
    /\ \E retr \in RetrieverOutcomes, sm \in SummarizerOutcomes :
          Ended(answer_with_summary(vectorstore, query, retr, sm), "returned")
    /\ UNCHANGED <<vectorstore, query_box, chat_history, output_box, query>>

\* chatbot_answer, lines 165-167: any other query tries QA first
chatbot_answer_qa ==
    /\ pc = "chatbot_answer"
    /\ ~is_summary_query(query)
    /\ \E retr \in RetrieverOutcomes, qa \in QAOutcomes :
          Ended(answer_with_qa(vectorstore, query, retr, qa), "qa_done")
    /\ UNCHANGED <<vectorstore, query_box, chat_history, output_box, query>>

\* chatbot_answer, line 169 on a value with no strip(): AttributeError
chatbot_answer_strip_fails ==
    /\ pc = "qa_done"
    /\ qa_ans.type # "str"
    /\ pc' = "raised"
    /\ exc' = "AttributeError"
    /\ UNCHANGED <<vectorstore, query_box, chat_history, output_box, query,
                   qa_ans, result, calls>>

\* chatbot_answer, lines 169-170: an unhelpful QA answer falls back
chatbot_answer_fallback ==
    /\ pc = "qa_done"
    /\ qa_ans.type = "str"
    /\ qa_unhelpful(qa_ans.v)
    /\ \E retr \in RetrieverOutcomes, sm \in SummarizerOutcomes :
          Ended(answer_with_summary(vectorstore, query, retr, sm), "returned")
    /\ UNCHANGED <<vectorstore, query_box, chat_history, output_box, query>>

\* chatbot_answer, line 171
chatbot_answer_keep_qa ==
    /\ pc = "qa_done"
    /\ qa_ans.type = "str"
    /\ ~qa_unhelpful(qa_ans.v)
    /\ result' = qa_ans
    /\ pc' = "returned"
    /\ UNCHANGED <<vectorstore, query_box, chat_history, output_box, query,
                   qa_ans, exc, calls>>

\* the handler is over: its locals are gone
Idle ==
    /\ pc' = "idle"
    /\ query' = <<>>
    /\ qa_ans' = None
    /\ result' = None
    /\ exc' = ""
    /\ calls' = <<>>

\* process_query, lines 203-205
process_query_end ==
    /\ pc = "returned"
    /\ chat_history' = history_append(chat_history, query, result)
    /\ query_box' = <<>>
    /\ output_box' = update_display(chat_history')
    /\ Idle
    /\ UNCHANGED vectorstore

\* the exception of chatbot_answer leaves process_query at line 202
process_query_raises ==
    /\ pc = "raised"
    /\ Idle
    /\ UNCHANGED <<vectorstore, query_box, chat_history, output_box>>

\* on_clear
on_clear ==
    /\ pc = "idle"
    /\ chat_history' = <<>>
    /\ output_box' = update_display(chat_history')
    /\ UNCHANGED <<vectorstore, query_box, pc, query, qa_ans, result, exc, calls>>

Next ==
    \/ type_query
    \/ process_query_blank
    \/ process_query_begin
    \/ chatbot_answer_summary
    \/ chatbot_answer_qa
    \/ chatbot_answer_strip_fails
    \/ chatbot_answer_fallback
    \/ chatbot_answer_keep_qa
    \/ process_query_end
    \/ process_query_raises
    \/ on_clear

Spec == Init /\ [][Next]_vars

---------------------------------------------------------------------------
(* The properties.                                                         *)

EventsOf(fn) == {i \in 1..Len(calls) : calls[i].fn = fn}

Invoked(fn) == EventsOf(fn) # {}

HasReturned(fn) ==
    \E i \in EventsOf(fn) : calls[i].ev = "return"

\* what the one call of fn in this chatbot_answer returned
ReturnedBy(fn) ==
    calls[CHOOSE i \in EventsOf(fn) : calls[i].ev = "return"].value

RetrievalRaised ==
    \E i \in EventsOf("retrieve_context") : calls[i].ev = "raise"

ModelRaised ==
    \E i \in EventsOf("qa_pipeline") \cup EventsOf("summarizer") :
        calls[i].ev = "raise"

IsPrefix(s, t) == Len(s) <= Len(t) /\ SubSeq(t, 1, Len(s)) = s

\* the query, trimmed and lower-cased, has one of the six keywords in it
HasRoutingKeyword(q) ==
    LET t == lower(strip(q))
    IN  \E i \in 1..Len(t), j \in 1..Len(t) :
            SubSeq(t, i, j) \in
                { <<"s","u","m","m","a","r","i","z","e">>, <<"s","u","m","m","a","r","y">>, <<"s","u","m","m","a","r","i","s","e">>,
                  <<"g","i","v","e"," ","a"," ","s","u","m","m","a","r","y">>, <<"e","x","p","l","a","i","n">>, <<"o","v","e","r","v","i","e","w">> }

(* C1: a query with a routing keyword in it (in any letter case) is answered *)
(* by the Summary Answerer alone: neither answer_with_qa nor the QA model is *)
(* invoked, and what chatbot_answer returns is what answer_with_summary      *)
(* returned; a query with none of them invokes answer_with_qa first.         *)
C1_KeywordRouting ==
    pc # "idle" =>
        IF HasRoutingKeyword(query)
        THEN /\ ~Invoked("answer_with_qa")
             /\ ~Invoked("qa_pipeline")
             /\ pc # "chatbot_answer" => calls[1] = Enter("answer_with_summary")
             /\ pc = "returned" => result = ReturnedBy("answer_with_summary")
        ELSE pc # "chatbot_answer" => calls[1] = Enter("answer_with_qa")

C1_Witness ==
    /\ pc = "returned"
    /\ query = <<"S","u","m","m","a","r","i","z","e"," ","X">>
    /\ Invoked("summarizer")
    /\ result = ReturnedBy("answer_with_summary")

\* the fallback condition as the claim words it: no trimming before the
\* prefix test
ClaimedUnhelpful(val) ==
    /\ val.type = "str"
    /\ \/ val.v = <<>>
       \/ \E p \in { <<"i"," ","d","o"," ","n","o","t"," ","k","n","o","w">>, <<"n","o"," ","r","e","l","e","v","a","n","t">>, <<"u","n","a","n","s","w","e","r","a","b","l","e">> } :
              startswith(lower(val.v), p)
       \/ Len(val.v) < 20

C3_RetrievalDepth ==
    Len(vectorstore) >= 6 =>
        \A i \in EventsOf("retrieve_context") :
            calls[i].ev = "return" => Len(calls[i].chunks) = calls[i].k

(* C4: a retriever failure at query time does not leave chatbot_answer as an *)
(* exception: the call returns an error text.                                *)
C4_RetrievalFailureRecovered ==
    RetrievalRaised => (pc # "raised" /\ (pc = "returned" => result.type = "str"))

\* every retrieval of this call came back, and came back empty
RetrievalEmpty ==
    /\ Invoked("retrieve_context")
    /\ \A i \in EventsOf("retrieve_context") :
           calls[i].ev = "return" /\ calls[i].chunks = <<>>

EmptyRetrievalHandled(sentinel) ==
    RetrievalEmpty =>
        /\ ~Invoked("qa_pipeline")
        /\ ~Invoked("summarizer")
        /\ pc # "raised"
        /\ \A fn \in {"answer_with_qa", "answer_with_summary"} :
               HasReturned(fn) => ReturnedBy(fn) = Str(sentinel)
        /\ pc = "returned" =>
               /\ result = Str(sentinel)
               /\ HasReturned("answer_with_summary")

\* C5 as stated: the sentinel is "No relevant passages found."
C5_SentinelAsStated == EmptyRetrievalHandled(<<"N","o"," ","r","e","l","e","v","a","n","t"," ","p","a","s","s","a","g","e","s"," ","f","o","u","n","d",".">>)

(* C5: when retrieval yields no chunks, answer_with_qa and                   *)
(* answer_with_summary each return the fixed sentinel "No relevant passages  *)
(* found in the PDFs." without invoking the QA model or the summarizer and   *)
(* without raising; chatbot_answer then returns that sentinel for every      *)
(* query, on the QA route through the fallback to answer_with_summary.       *)
C5_EmptyRetrieval ==
    EmptyRetrievalHandled(<<"N","o"," ","r","e","l","e","v","a","n","t"," ","p","a","s","s","a","g","e","s"," ","f","o","u","n","d"," ","i","n"," ","t","h","e"," ","P","D","F","s",".">>)

C5_Witness ==
    /\ pc = "returned"
    /\ RetrievalEmpty
    /\ HasReturned("answer_with_qa")
    /\ HasReturned("answer_with_summary")
    /\ result = Str(<<"N","o"," ","r","e","l","e","v","a","n","t"," ","p","a","s","s","a","g","e","s"," ","f","o","u","n","d"," ","i","n"," ","t","h","e"," ","P","D","F","s",".">>)

(* C6: a QA model call or a summarizer call that raises is not propagated:   *)
(* answer_with_qa returns "QA model error: <detail>" and                     *)
(* answer_with_summary returns "Summarizer error: <detail>", nothing         *)
(* appended, and (no retrieval having raised) chatbot_answer returns a text. *)
C6_ModelFailureContained ==
    /\ \A i \in EventsOf("qa_pipeline") :
           calls[i].ev = "raise" =>
               /\ i < Len(calls)
               /\ calls[i + 1] =
                   Exit("answer_with_qa",
                        Str(<<"Q","A"," ","m","o","d","e","l"," ","e","r","r","o","r",":"," ">> \o calls[i].value.detail))
    /\ \A i \in EventsOf("summarizer") :
           calls[i].ev = "raise" =>
               /\ i < Len(calls)
               /\ calls[i + 1] =
                   Exit("answer_with_summary",
                        Str(<<"S","u","m","m","a","r","i","z","e","r"," ","e","r","r","o","r",":"," ">> \o calls[i].value.detail))
    /\ (ModelRaised /\ ~RetrievalRaised) =>
           /\ pc \in {"qa_done", "returned"}
           /\ pc = "qa_done" => qa_ans.type = "str"
           /\ pc = "returned" => result.type = "str"

C6_Witness ==
    /\ pc = "returned"
    /\ \E i \in EventsOf("qa_pipeline") : calls[i].ev = "raise"
    /\ \E i \in EventsOf("summarizer") : calls[i].ev = "raise"
    /\ result = Str(<<"S","u","m","m","a","r","i","z","e","r"," ","e","r","r","o","r",":"," ","o","u","t"," ","o","f"," ","m","e","m","o","r","y">>)

\* the distinct non-empty sources of the chunks
CitedSources(chunks) ==
    {chunks[j].source : j \in 1..Len(chunks)} \ {<<>>}

\* the sources, each once, in ascending order
Ascending(S) ==
    CHOOSE xs \in [1..Cardinality(S) -> S] :
        \A i \in 1..Len(xs), j \in 1..Len(xs) : i < j => str_lt(xs[i], xs[j])

\* the text the model call gave
ModelText(e) ==
    IF e.fn = "qa_pipeline" THEN qa_answer_of(e.value.res)
    ELSE Str(e.value.summary_text)

C8_AppendOnly == [][IsPrefix(chat_history, chat_history')]_vars

(* C8: the chat history is an ordered sequence of (question, answer) turns   *)
(* that process_query and update_display only ever extend at the end; the    *)
(* one step that removes turns is on_clear, which empties the history and    *)
(* the display.                                                              *)
C8_AppendOnlyUntilClear ==
    [][ \/ IsPrefix(chat_history, chat_history')
        \/ /\ pc = "idle" /\ pc' = "idle"
           /\ chat_history' = <<>>
           /\ output_box' = <<>>
           /\ query_box' = query_box ]_vars

C8_Witness == pc = "idle" /\ Len(chat_history) = 2 /\ query_box = <<>>

(* C9: a turn is appended only by the step that ends process_query after     *)
(* chatbot_answer has returned: that step appends exactly the one turn       *)
(* (q, a) with a the value returned, clears the query box and redraws the    *)
(* display from the history; while the answer is computed nothing is         *)
(* appended, and when chatbot_answer raises the history and the query box    *)
(* stay as they were; a blank query starts no computation.                   *)
C9_AppendAfterAnswer ==
    [][ /\ Len(chat_history') > Len(chat_history) => pc = "returned"
        /\ pc = "returned" =>
               /\ chat_history' = Append(chat_history, <<query, result>>)
               /\ query_box' = <<>>
               /\ Len(output_box') = Len(chat_history')
               /\ \A i \in 1..Len(output_box') :
                      /\ output_box'[i].kind = "turn"
                      /\ <<output_box'[i].q, output_box'[i].a>> = chat_history'[i]
               /\ pc' = "idle"
        /\ pc \in {"chatbot_answer", "qa_done", "raised"} =>
               /\ chat_history' = chat_history
               /\ query_box' = query_box
               /\ output_box' = output_box
        /\ (pc = "idle" /\ pc' # "idle") =>
               /\ strip(query_box) # <<>>
               /\ query' = strip(query_box)
               /\ chat_history' = chat_history ]_vars

C9_Witness ==
    /\ pc = "idle"
    /\ Len(chat_history) = 1
    /\ Len(output_box) = 2
    /\ output_box[2].kind = "processing"

====
